---- MODULE Spec2Model ----
(***************************************************************************)
(* mtr_exporter v0.2.0: the background collection loop of main.go          *)
(* (Exporter.collect, trace, worker) and the go-mtr result it consumes.    *)
(*                                                                         *)
(* One goroutine per configured host and cycle runs mtr, sends its        *)
(* TargetFeedback on the cycle's unbuffered results channel and calls      *)
(* wg.Done; a closer goroutine closes the channel after wg.Wait; the       *)
(* collect goroutine ranges over the channel and is the only one that      *)
(* touches lastRoute / lastDest.  A panic in the collect goroutine ends    *)
(* the process.                                                            *)
(***************************************************************************)
EXTENDS Integers, Sequences, FiniteSets, TLC

\* ------------------------------------------------------------------ bounds
MaxTargets == 2     \* hosts in the configuration: 0..MaxTargets
MaxCycles == 2      \* cycles of the endless for-loop that are explored
MaxHops == 3        \* hops in one mtr result of a single-host configuration
MaxLossHops == 1    \* hops in an mtr result whose hops lose or duplicate packets
MaxReceived == 2    \* packet lines of a hop in such a result: 0..MaxReceived
MaxHopsShared == 1  \* hops in one mtr result when several hosts are configured

\* --------------------------------------------------------------- constants
ReportCycles == 1   \* mtr.New(1, ...): PacketsSent of every run

NilIP == "<nil>"                         \* net.IP(nil); String() gives "<nil>"
IPs == {NilIP, "10.0.0.1", "10.0.0.2"}   \* what net.ParseIP can return
NilRoute == <<"nil">>                    \* a missing lastRoute entry ([]net.IP(nil))
NoTF == [Target |-> "", Alias |-> "", Hosts |-> <<>>, Cycle |-> 0, Worker |-> 0]
NoError == "nil"                         \* a.Error == nil
Errors == {"exec", "malformed"}          \* exec.Command(...).Output() failed; processOutput recovered
NoMTR == [Error |-> NoError, Hosts |-> <<>>]
NoAgg == [alias |-> "", target |-> "", cycle |-> 0, worker |-> 0, route |-> <<>>,
          dest |-> NilIP, prevRoute |-> NilRoute, prevDest |-> NilIP,
          routeEvents |-> <<>>, destEvents |-> <<>>, hopAdds |-> <<>>]

Cycles == 1..MaxCycles
Workers == 1..MaxTargets

\* config.Hosts: the configurations explored (host names are distinct; two
\* hosts may carry the same alias)
Host(n, al) == [Name |-> n, Alias |-> al]
Configs ==
    {s \in UNION {[1..n -> {Host("t1", "a"), Host("t2", "a"), Host("t2", "b")}] : n \in 0..MaxTargets} :
        \A i \in DOMAIN s : s[i].Name = (IF i = 1 THEN "t1" ELSE "t2")}

min(a, b) == IF a > b THEN b ELSE a

\* ----------------------------------------------------------- go-mtr result
\* processHosts: Sent, Received, Dropped of one hop
MkHost(hop, ip, received) ==
    [Hop |-> hop, IP |-> ip, Sent |-> ReportCycles, Received |-> received,
     Dropped |-> ReportCycles - received]

\* a host list: hop i of the list has Hop = i (README.md:146-148)
HostList(ips, rc) == [i \in 1..Len(ips) |-> MkHost(i - 1, ips[i], rc[i])]

\* host lists of up to n hops, each hop with one of the received counts rcs
Lists(n, rcs) ==
    UNION {{HostList(ips, rc) : ips \in [1..k -> IPs], rc \in [1..k -> rcs]} : k \in 0..n}

\* the host lists a successful run can hold, by the number of configured
\* hosts: routes of every length without loss and short routes with every
\* received count for one host, short routes without loss for several
HostLists(n) ==
    IF n <= 1
    THEN Lists(MaxHops, {ReportCycles}) \cup Lists(MaxLossHops, 0..MaxReceived)
    ELSE Lists(MaxHopsShared, {ReportCycles})

VARIABLES
    hosts,          \* config.Hosts
    cycle,          \* iterations of collect's for-loop started so far
    mainpc,         \* collect goroutine: "spawn", "range", "body", "panic"
    tf,             \* the TargetFeedback the range loop is processing
    wpc,            \* worker goroutine of (cycle, host): "none", "probe", "send",
                    \*   "wgdone", "inc", "done"
    mtr,            \* the *mtr.MTR of each worker goroutine after <-a.Done
    wg,             \* the WaitGroup counter of each cycle
    closed,         \* whether each cycle's results channel is closed
    closer,         \* closer goroutine of each cycle: "none", "wait", "done"
    lastDest,       \* e.lastDest
    lastRoute,      \* e.lastRoute
    sent, received, dropped, lost, latency,   \* per-hop metric vectors
    routeChanges, destinationChanges, failed, \* change and failure counters
    prevRoute,      \* history: route of the last aggregated trace per alias
    agg,            \* history: the last completed run of the loop body
    aggregated,     \* history: loop-body completions per (cycle, host)
    failIncs,       \* history: failed.Inc calls per (cycle, host)
    rsAccess        \* history: goroutines that touched lastRoute/lastDest in the last step

\* one run of go-mtr (README.md:97-158), followed through its parser
VARIABLES
    lines,          \* history: the records mtr wrote, in order
    terminated,     \* history: whether the last record ends in a newline
    output,         \* processOutput's local: the bytes not yet consumed
    run,            \* the *mtr.MTR under construction: Hosts, Error, PacketsSent
    ppc             \* the run's position: "idle", "exec", "loop", "hosts", "done",
                    \*   "sent", "failed", "crash"

pvars == <<lines, terminated, output, run, ppc>>

\* the v0.1.0 exporter (unnamed/part_001): scrapes of its Collect method
VARIABLES
    spc,            \* Collect call of each scrape: "idle", "lock", "setup", "range",
                    \*   "body", "returned"
    mutex,          \* e.mutex: the scrape that holds it, or 0
    swpc,           \* worker goroutine of (scrape, host): "none", "probe", "send",
                    \*   "wgdone", "done"
    smtr,           \* the *mtr.MTR of each of these goroutines after <-a.Done
    swg,            \* the WaitGroup counter of each scrape
    sclosed,        \* whether each scrape's results channel is closed
    scloser,        \* closer goroutine of each scrape: "none", "wait", "done"
    stf,            \* the TargetFeedback each scrape's range loop is processing
    gauges,         \* the gauge vectors, by label: what was last Set
    recorded        \* history: loop-body completions per (scrape, host)

svars == <<spc, mutex, swpc, smtr, swg, sclosed, scloser, stf, gauges, recorded>>

cvars == <<hosts, cycle, mainpc, tf, wpc, mtr, wg, closed, closer, lastDest, lastRoute,
           sent, received, dropped, lost, latency, routeChanges, destinationChanges, failed,
           prevRoute, agg, aggregated, failIncs, rsAccess>>

vars == <<cvars, pvars, svars>>

metrics == <<sent, received, dropped, lost, latency>>
changes == <<routeChanges, destinationChanges>>
routeState == <<lastDest, lastRoute>>

Aliases == {hosts[i].Alias : i \in DOMAIN hosts}
N == Len(hosts)

\* CounterVec.WithLabelValues(k).Add(v): a child is created on first use
Add(vec, k, v) ==
    IF k \in DOMAIN vec THEN [vec EXCEPT ![k] = @ + v] ELSE vec @@ (k :> v)

Val(vec, k) == IF k \in DOMAIN vec THEN vec[k] ELSE 0

Empty == [k \in {} |-> 0]

\* the collection loop before its first iteration
CollectInit ==
    /\ hosts \in Configs
    /\ cycle = 0
    /\ mainpc = "spawn"
    /\ tf = NoTF
    /\ wpc = [c \in Cycles |-> [w \in Workers |-> "none"]]
    /\ mtr = [c \in Cycles |-> [w \in Workers |-> NoMTR]]
    /\ wg = [c \in Cycles |-> 0]
    /\ closed = [c \in Cycles |-> FALSE]
    /\ closer = [c \in Cycles |-> "none"]
    /\ lastDest = [al \in {"a", "b"} |-> NilIP]
    /\ lastRoute = [al \in {"a", "b"} |-> NilRoute]
    /\ sent = Empty /\ received = Empty /\ dropped = Empty /\ lost = Empty
    /\ latency = Empty
    /\ routeChanges = Empty /\ destinationChanges = Empty /\ failed = Empty
    /\ prevRoute = [al \in {"a", "b"} |-> NilRoute]
    /\ agg = NoAgg
    /\ aggregated = [c \in Cycles |-> [w \in Workers |-> 0]]
    /\ failIncs = [c \in Cycles |-> [w \in Workers |-> 0]]
    /\ rsAccess = {}

\* no mtr run is followed through its parser
NoRun == [Hosts |-> <<>>, Error |-> NoError, PacketsSent |-> ReportCycles]
ParserIdle ==
    /\ lines = <<>> /\ terminated = TRUE /\ output = <<>> /\ run = NoRun /\ ppc = "idle"

MaxScrapes == 2     \* scrapes of the v0.1.0 exporter that are explored
Scrapes == 1..MaxScrapes

\* no scrape of the v0.1.0 exporter has been requested
ScrapeIdle ==
    /\ spc = [s \in Scrapes |-> "idle"]
    /\ mutex = 0
    /\ swpc = [s \in Scrapes |-> [w \in Workers |-> "none"]]
    /\ smtr = [s \in Scrapes |-> [w \in Workers |-> NoMTR]]
    /\ swg = [s \in Scrapes |-> 0]
    /\ sclosed = [s \in Scrapes |-> FALSE]
    /\ scloser = [s \in Scrapes |-> "none"]
    /\ stf = [s \in Scrapes |-> NoTF]
    /\ gauges = Empty
    /\ recorded = [s \in Scrapes |-> [w \in Workers |-> 0]]

Init == CollectInit /\ ParserIdle /\ ScrapeIdle

\* ------------------------------------------------------------ worker side
Name(w) == hosts[w].Name
Alias(w) == hosts[w].Alias
Running == mainpc # "panic"     \* a panic in the collect goroutine ends the process

\* main.go:165-186  one iteration's set-up: channel, WaitGroup, one goroutine
\* per host, the closer goroutine
Spawn ==
    /\ mainpc = "spawn"
    /\ cycle < MaxCycles
    /\ cycle' = cycle + 1
    /\ wg' = [wg EXCEPT ![cycle + 1] = N]
    /\ wpc' = [wpc EXCEPT ![cycle + 1] = [w \in Workers |-> IF w <= N THEN "probe" ELSE "none"]]
    /\ closer' = [closer EXCEPT ![cycle + 1] = "wait"]
    /\ mainpc' = "range"
    /\ rsAccess' = {}
    /\ UNCHANGED <<pvars, svars>>
    /\ UNCHANGED <<hosts, tf, mtr, closed, routeState, metrics, changes, failed,
                   prevRoute, agg, aggregated, failIncs>>

\* main.go:236-237 with README.md:100-106  mtr ended in an error, or its
\* output could not be processed: a.Error is set
ProbeFail(c, w) ==
    /\ Running
    /\ wpc[c][w] = "probe"
    /\ \E e \in Errors : mtr' = [mtr EXCEPT ![c][w] = [Error |-> e, Hosts |-> <<>>]]
    /\ wpc' = [wpc EXCEPT ![c][w] = "wgdone"]
    /\ rsAccess' = {}
    /\ UNCHANGED <<pvars, svars>>
    /\ UNCHANGED <<hosts, cycle, mainpc, tf, wg, closed, closer, routeState, metrics,
                   changes, failed, prevRoute, agg, aggregated, failIncs>>

\* main.go:236-240  mtr ended well: a.Error == nil and a.Hosts is set
ProbeOk(c, w) ==
    /\ Running
    /\ wpc[c][w] = "probe"
    /\ \E hl \in HostLists(N) : mtr' = [mtr EXCEPT ![c][w] = [Error |-> NoError, Hosts |-> hl]]
    /\ wpc' = [wpc EXCEPT ![c][w] = "send"]
    /\ rsAccess' = {}
    /\ UNCHANGED <<pvars, svars>>
    /\ UNCHANGED <<hosts, cycle, mainpc, tf, wg, closed, closer, routeState, metrics,
                   changes, failed, prevRoute, agg, aggregated, failIncs>>

\* main.go:241-245  the TargetFeedback trace sends
Feedback(c, w) ==
    [Target |-> Name(w), Alias |-> Alias(w), Hosts |-> mtr[c][w].Hosts,
     Cycle |-> c, Worker |-> w]

\* main.go:241 and 188  the send on the unbuffered channel meets the range
\* loop's receive; trace then returns a.Error
Receive(c, w) ==
    /\ mainpc = "range"
    /\ c = cycle
    /\ wpc[c][w] = "send"
    /\ ~closed[c]
    /\ tf' = Feedback(c, w)
    /\ mainpc' = "body"
    /\ wpc' = [wpc EXCEPT ![c][w] = "wgdone"]
    /\ mtr' = [mtr EXCEPT ![c][w].Hosts = <<>>]
    /\ agg' = NoAgg
    /\ rsAccess' = {}
    /\ UNCHANGED <<pvars, svars>>
    /\ UNCHANGED <<hosts, cycle, wg, closed, closer, routeState, metrics, changes, failed,
                   prevRoute, aggregated, failIncs>>

AfterWorkerDropsError(err) == "done"

\* main.go:174  what the goroutine does with worker's result
AfterWorker(err) == IF err # NoError THEN "inc" ELSE "done"

\* main.go:251-252 and 173-179  worker returns: the deferred wg.Done runs, then
\* the goroutine looks at the error
WgDone(c, w) ==
    /\ Running
    /\ wpc[c][w] = "wgdone"
    /\ wg' = [wg EXCEPT ![c] = @ - 1]
    /\ wpc' = [wpc EXCEPT ![c][w] = AfterWorker(mtr[c][w].Error)]
    /\ rsAccess' = {}
    /\ UNCHANGED <<pvars, svars>>
    /\ UNCHANGED <<hosts, cycle, mainpc, tf, mtr, closed, closer, routeState, metrics,
                   changes, failed, prevRoute, agg, aggregated, failIncs>>

FailedIncClearsState(c, w) ==
    /\ Running
    /\ wpc[c][w] = "inc"
    /\ failed' = Add(failed, <<Alias(w), Name(w)>>, 1)
    /\ failIncs' = [failIncs EXCEPT ![c][w] = @ + 1]
    /\ wpc' = [wpc EXCEPT ![c][w] = "done"]
    /\ lastDest' = [lastDest EXCEPT ![Alias(w)] = NilIP]
    /\ lastRoute' = [lastRoute EXCEPT ![Alias(w)] = NilRoute]
    /\ rsAccess' = {"worker"}
    /\ UNCHANGED <<pvars, svars>>
    /\ UNCHANGED <<hosts, cycle, mainpc, tf, mtr, wg, closed, closer, metrics,
                   changes, prevRoute, agg, aggregated>>

\* main.go:176  e.failed.WithLabelValues(host.Alias, host.Name).Inc()
FailedInc(c, w) ==
    /\ Running
    /\ wpc[c][w] = "inc"
    /\ failed' = Add(failed, <<Alias(w), Name(w)>>, 1)
    /\ failIncs' = [failIncs EXCEPT ![c][w] = @ + 1]
    /\ wpc' = [wpc EXCEPT ![c][w] = "done"]
    /\ rsAccess' = {}
    /\ UNCHANGED <<pvars, svars>>
    /\ UNCHANGED <<hosts, cycle, mainpc, tf, mtr, wg, closed, closer, routeState, metrics,
                   changes, prevRoute, agg, aggregated>>

WaitReturnsAtOnce(c) == TRUE

WaitReturnsEarly(c) == wg[c] <= 1

\* sync.WaitGroup.Wait returns when the counter is zero
WaitReturns(c) == wg[c] = 0

\* main.go:183-186  the closer goroutine: wg.Wait(); close(results)
Close(c) ==
    /\ Running
    /\ closer[c] = "wait"
    /\ WaitReturns(c)
    /\ closed' = [closed EXCEPT ![c] = TRUE]
    /\ closer' = [closer EXCEPT ![c] = "done"]
    /\ rsAccess' = {}
    /\ UNCHANGED <<pvars, svars>>
    /\ UNCHANGED <<hosts, cycle, mainpc, tf, wpc, mtr, wg, routeState, metrics, changes,
                   failed, prevRoute, agg, aggregated, failIncs>>

\* main.go:188, 218-219  the range loop ends on the closed channel and the
\* for-loop starts over
RangeEnd ==
    /\ mainpc = "range"
    /\ closed[cycle]
    /\ mainpc' = "spawn"
    /\ rsAccess' = {}
    /\ UNCHANGED <<pvars, svars>>
    /\ UNCHANGED <<hosts, cycle, tf, wpc, mtr, wg, closed, closer, routeState, metrics,
                   changes, failed, prevRoute, agg, aggregated, failIncs>>

\* ----------------------------------------------------- aggregation point
\* main.go:189-192  route[i] = host.IP
Route(hl) == [i \in 1..Len(hl) |-> hl[i].IP]

\* main.go:190  tf.Hosts[len(tf.Hosts)-1] panics on an empty list
DestinationPanics(hl) == Len(hl) = 0

\* main.go:190  destination := tf.Hosts[len(tf.Hosts)-1].IP
Destination(hl) == hl[Len(hl)].IP

\* prometheus Counter.Add panics on a negative value (main.go:193-196)
AddPanics(v) == v < 0

\* main.go:196  host.LostPercent * float64(host.Sent), LostPercent being
\* Dropped / Sent (README.md:165)
LostTimesSent(h) == h.Dropped

\* main.go:191-198  the per-hop metric updates, hop by hop from hop i on; m
\* holds the five vectors and whether an Add panicked
RECURSIVE ObserveHops(_, _, _)
ObserveHops(m, feedback, i) ==
    IF i > Len(feedback.Hosts) \/ m.panic THEN m
    ELSE LET h == feedback.Hosts[i]
             k == <<feedback.Alias, feedback.Target, h.Hop, h.IP>>
             s1 == [m EXCEPT !.sent = Add(@, k, h.Sent)]
             s2 == IF AddPanics(h.Sent) THEN [m EXCEPT !.panic = TRUE]
                   ELSE [s1 EXCEPT !.received = Add(@, k, h.Received)]
             s3 == IF s2.panic THEN s2
                   ELSE IF AddPanics(h.Received) THEN [s2 EXCEPT !.panic = TRUE]
                   ELSE IF AddPanics(h.Dropped) THEN [s2 EXCEPT !.panic = TRUE]
                   ELSE [s2 EXCEPT !.dropped = Add(@, k, h.Dropped)]
             s4 == IF s3.panic THEN s3
                   ELSE IF AddPanics(LostTimesSent(h)) THEN [s3 EXCEPT !.panic = TRUE]
                   ELSE [s3 EXCEPT !.lost = Add(@, k, LostTimesSent(h)),
                                   !.latency = Add(@, k, 1)]
         IN ObserveHops(s4, feedback, i + 1)

\* main.go:199-211  the hop_id labels whose route_changes counter is
\* incremented, given the new route and e.lastRoute[alias]
RouteChangeIdx(route, last) ==
    IF last # NilRoute
    THEN LET m == min(Len(route), Len(last))
         IN IF Len(route) # Len(last)
            THEN {m}
            ELSE {i \in 0..(m - 2) : route[i + 1] # last[i + 1]}
    ELSE {}

\* main.go:199, 212  e.lastRoute[alias] after the body
NextLastRoute(route, last) == IF last # NilRoute THEN route ELSE last

DestChangedIgnoresEqual(destination, last) == last # NilIP

DestChangedIgnoresNil(destination, last) == destination # last

\* main.go:214  whether destination_changes is incremented
DestChanged(destination, last) == last # NilIP /\ destination # last

\* main.go:217  e.lastDest[alias] after the body
NextLastDest(destination, last) == destination

\* the increments a step applied to a vector, by label
Delta(new, old) ==
    [k \in {x \in DOMAIN new : new[x] # Val(old, x)} |-> new[k] - Val(old, k)]

IncAll(vec, keys) ==
    [k \in DOMAIN vec \cup keys |-> Val(vec, k) + (IF k \in keys THEN 1 ELSE 0)]

\* main.go:189-190  the loop body panics before it counts anything
BodyPanicsAtDestination ==
    /\ mainpc = "body"
    /\ DestinationPanics(tf.Hosts)
    /\ mainpc' = "panic"
    /\ rsAccess' = {}
    /\ UNCHANGED <<pvars, svars>>
    /\ UNCHANGED <<hosts, cycle, tf, wpc, mtr, wg, closed, closer, routeState, metrics,
                   changes, failed, prevRoute, agg, aggregated, failIncs>>

\* main.go:189-217  one run of the range loop's body
Body ==
    /\ mainpc = "body"
    /\ ~DestinationPanics(tf.Hosts)
    /\ LET m == ObserveHops([sent |-> sent, received |-> received, dropped |-> dropped,
                             lost |-> lost, latency |-> latency, panic |-> FALSE], tf, 1)
           route == Route(tf.Hosts)
           destination == Destination(tf.Hosts)
           al == tf.Alias
           idx == RouteChangeIdx(route, lastRoute[al])
       IN /\ sent' = m.sent /\ received' = m.received /\ dropped' = m.dropped
          /\ lost' = m.lost /\ latency' = m.latency
          /\ IF m.panic
             THEN /\ mainpc' = "panic"
                  /\ rsAccess' = {}
                  /\ UNCHANGED <<tf, routeState, changes, prevRoute, agg, aggregated>>
             ELSE /\ mainpc' = "range"
                  /\ tf' = NoTF
                  /\ routeChanges' = IncAll(routeChanges, {<<al, tf.Target, i>> : i \in idx})
                  /\ lastRoute' = [lastRoute EXCEPT ![al] = NextLastRoute(route, @)]
                  /\ destinationChanges' =
                        IF DestChanged(destination, lastDest[al])
                        THEN Add(destinationChanges,
                                 <<al, tf.Target, lastDest[al], destination>>, 1)
                        ELSE destinationChanges
                  /\ lastDest' = [lastDest EXCEPT ![al] = NextLastDest(destination, @)]
                  /\ prevRoute' = [prevRoute EXCEPT ![al] = route]
                  /\ aggregated' = [aggregated EXCEPT ![tf.Cycle][tf.Worker] = @ + 1]
                  /\ rsAccess' = {"collect"}
                  /\ agg' = [alias |-> al, target |-> tf.Target, cycle |-> tf.Cycle,
                             worker |-> tf.Worker, route |-> route, dest |-> destination,
                             prevRoute |-> prevRoute[al], prevDest |-> lastDest[al],
                             routeEvents |-> Delta(routeChanges', routeChanges),
                             destEvents |-> Delta(destinationChanges', destinationChanges),
                             hopAdds |-> Delta(sent', sent)]
    /\ UNCHANGED <<pvars, svars>>
    /\ UNCHANGED <<hosts, cycle, wpc, mtr, wg, closed, closer, failed, failIncs>>

Next ==
    \/ Spawn
    \/ \E c \in Cycles, w \in Workers : ProbeFail(c, w)
    \/ \E c \in Cycles, w \in Workers : ProbeOk(c, w)
    \/ \E c \in Cycles, w \in Workers : Receive(c, w)
    \/ \E c \in Cycles, w \in Workers : WgDone(c, w)
    \/ \E c \in Cycles, w \in Workers : FailedInc(c, w)
    \/ \E c \in Cycles : Close(c)
    \/ RangeEnd
    \/ BodyPanicsAtDestination
    \/ Body

Spec == Init /\ [][Next]_vars

\* Go's scheduler runs every goroutine that can take a step
FairSpec == Spec /\ WF_vars(Next)

\* ------------------------------------------------- go-mtr: the raw output
\* mtr --raw writes records `h <n> <ip>`, `d <n> <name>`, `p <n> <micros>`
\* (README.md:120, 144-154).  A byte is a one-character string; the text of an
\* address is abbreviated to one byte, "A" or "B".
MaxLines == 4       \* records in one raw output: 0..MaxLines

Digit == <<"0", "1", "2">>

\* a record of the protocol's shape, and any other run of bytes
Rec(kind, hop, arg) ==
    [kind |-> kind, hop |-> hop, arg |-> arg,
     text |-> <<kind, " ", Digit[hop + 1], " ">> \o arg]
Garbled(text) == [kind |-> "?", hop |-> 0 - 1, arg |-> <<>>, text |-> text]

Records ==
    {Rec("h", 0, <<"A">>), Rec("h", 0, <<"B">>), Rec("h", 1, <<"B">>), Rec("h", 0, <<"z">>),
     Rec("d", 0, <<"n">>),
     Rec("p", 0, <<"5">>), Rec("p", 0, <<"1", "2">>), Rec("p", 1, <<"5">>),
     Rec("p", 2, <<"5">>), Rec("p", 0, <<"-">>),
     Rec("x", 0, <<"y">>), Garbled(<<"x", "y">>), Garbled(<<"x">>), Garbled(<<>>)}

Outputs == UNION {[1..n -> Records] : n \in 0..MaxLines}

\* the bytes of the records ls, each followed by a newline
RECURSIVE Join(_)
Join(ls) == IF ls = <<>> THEN <<>> ELSE Head(ls).text \o <<"\n">> \o Join(Tail(ls))

\* m.OutputRaw: what exec.Command("mtr", ...).Output() returned
RawOf(ls, term) ==
    IF term \/ ls = <<>> THEN Join(ls) ELSE SubSeq(Join(ls), 1, Len(Join(ls)) - 1)

\* the byte values the parser computes with
Ord(b) ==
    CASE b = "0" -> 48 [] b = "1" -> 49 [] b = "2" -> 50 [] b = "5" -> 53
      [] b = "-" -> 45 [] b = " " -> 32 [] b = "\n" -> 10
      [] b = "A" -> 65 [] b = "B" -> 66
      [] b = "d" -> 100 [] b = "h" -> 104 [] b = "n" -> 110 [] b = "p" -> 112
      [] b = "x" -> 120 [] b = "y" -> 121 [] b = "z" -> 122

\* bytes.IndexByte: the index of the first b in s, from 0, or -1
IndexByte(s, b) ==
    IF \E i \in 1..Len(s) : s[i] = b
    THEN (CHOOSE i \in 1..Len(s) : s[i] = b /\ \A j \in 1..(i - 1) : s[j] # b) - 1
    ELSE 0 - 1

\* s[lo:hi] panics unless 0 <= lo <= hi <= len(s) (every upper index the
\* parser uses is at most len(s), so the capacity never decides)
SlicePanics(s, lo, hi) == ~(0 <= lo /\ lo <= hi /\ hi <= Len(s))
Slice(s, lo, hi) == SubSeq(s, lo + 1, hi)

\* s[i] panics unless 0 <= i < len(s)
IndexPanics(s, i) == ~(0 <= i /\ i < Len(s))

\* README.md:110-116
RECURSIVE parseByteNumLoop(_, _)
parseByteNumLoop(input, i) ==
    IF input = <<>> THEN i
    ELSE parseByteNumLoop(Tail(input), 10 * i + Ord(Head(input)) - 48)

parseByteNumLastDigit(input) ==
    IF input = <<>> THEN 0 ELSE Ord(input[Len(input)]) - 48

parseByteNum(input) == parseByteNumLoop(input, 0)

\* README.md:119  finalFieldIdx before the return adds one
SpaceIdx(line) == IndexByte(Slice(line, 2, Len(line)), " ") + 2

\* README.md:119-120  line[2:] and line[2:finalFieldIdx]
parseHostnumPanics(line) ==
    SlicePanics(line, 2, Len(line)) \/ SlicePanics(line, 2, SpaceIdx(line))

\* README.md:118-121
parseHostnum(line) ==
    [num |-> parseByteNum(Slice(line, 2, SpaceIdx(line))), finalFieldIdx |-> SpaceIdx(line) + 1]

\* net.ParseIP: nil for text that is no address
ParseIP(text) ==
    IF text = <<"A">> THEN "10.0.0.1" ELSE IF text = <<"B">> THEN "10.0.0.2" ELSE NilIP

\* a float64 is held as the fraction <<numerator, denominator>>
Zero == <<0, 1>>

\* README.md:65-82, 147  &Host{Hop: hop}; Divisions is history: the divisions
\* processHosts performed for the hop, as <<field, divisor>>
NewHost(hop) ==
    [IP |-> NilIP, Name |-> <<>>, Hop |-> hop, PacketMicrosecs |-> <<>>,
     Sent |-> 0, Received |-> 0, Dropped |-> 0, LostPercent |-> Zero,
     Mean |-> Zero, Best |-> 0, Worst |-> 0, StandardDev |-> Zero,
     MeanJitter |-> Zero, WorstJitter |-> 0, InterarrivalJitter |-> 0,
     Divisions |-> {}]

RECURSIVE ExtendStampsIndex(_, _)
ExtendStampsIndex(hs, hostnum) ==
    IF Len(hs) < hostnum + 1
    THEN ExtendStampsIndex(Append(hs, NewHost(hostnum)), hostnum)
    ELSE hs

\* README.md:146-148  for len(m.Hosts) < hostnum+1 { append(&Host{Hop: len(m.Hosts)}) }
RECURSIVE Extend(_, _)
Extend(hs, hostnum) ==
    IF Len(hs) < hostnum + 1
    THEN Extend(Append(hs, NewHost(Len(hs))), hostnum)
    ELSE hs

\* README.md:142-155  one record: the hop list after it and whether it panicked
ProcessLine(hs, line) ==
    IF parseHostnumPanics(line) THEN [Hosts |-> hs, panic |-> TRUE]
    ELSE LET hostnum == parseHostnum(line).num
             rest == Slice(line, parseHostnum(line).finalFieldIdx, Len(line))
         IN CASE line[1] = "h" ->
                   LET e == Extend(hs, hostnum)
                   IN IF IndexPanics(e, hostnum) THEN [Hosts |-> e, panic |-> TRUE]
                      ELSE [Hosts |-> [e EXCEPT ![hostnum + 1].IP = ParseIP(rest)],
                            panic |-> FALSE]
              [] line[1] = "d" ->
                   IF IndexPanics(hs, hostnum) THEN [Hosts |-> hs, panic |-> TRUE]
                   ELSE [Hosts |-> [hs EXCEPT ![hostnum + 1].Name = rest], panic |-> FALSE]
              [] line[1] = "p" ->
                   IF IndexPanics(hs, hostnum) THEN [Hosts |-> hs, panic |-> TRUE]
                   ELSE [Hosts |-> [hs EXCEPT ![hostnum + 1].PacketMicrosecs =
                                                  Append(@, parseByteNum(rest))],
                         panic |-> FALSE]
              [] OTHER -> [Hosts |-> hs, panic |-> FALSE]

\* README.md:134-156  the loop over the records of out, from the hop list hs
RECURSIVE ParseLoop(_, _)
ParseLoop(hs, out) ==
    LET lineIdx == IndexByte(out, "\n")
    IN IF lineIdx = 0 - 1 THEN [Hosts |-> hs, panic |-> FALSE]
       ELSE LET r == ProcessLine(hs, Slice(out, 0, lineIdx))
            IN IF r.panic THEN r
               ELSE ParseLoop(r.Hosts, Slice(out, lineIdx + 1, Len(out)))

\* ------------------------------------------------- go-mtr: the statistics
MaxSamples == 3     \* packet times of the hop whose statistics are computed: 0..MaxSamples
MaxSent == 3        \* report cycles of that run: 1..MaxSent

BestInit == 2147483647      \* best := 1<<31 - 1

Abs(x) == IF x < 0 THEN 0 - x ELSE x

\* README.md:172-182  jitters[i], jitters[0] staying 0
Jitters(s) == [i \in 1..Len(s) |-> IF i > 1 THEN Abs(s[i] - s[i - 1]) ELSE 0]

RECURSIVE SumSeq(_)
SumSeq(s) == IF s = <<>> THEN 0 ELSE Head(s) + SumSeq(Tail(s))

\* if x > worst { worst = x }, over s
RECURSIVE MaxFrom(_, _)
MaxFrom(w, s) ==
    IF s = <<>> THEN w ELSE MaxFrom(IF Head(s) > w THEN Head(s) ELSE w, Tail(s))

MinFromFirst(b, s) == IF s = <<>> THEN b ELSE Head(s)

\* if x < best { best = x }, over s
RECURSIVE MinFrom(_, _)
MinFrom(b, s) ==
    IF s = <<>> THEN b ELSE MinFrom(IF Head(s) < b THEN Head(s) ELSE b, Tail(s))

\* README.md:184  InterarrivalJitter += newJitter - ((InterarrivalJitter + 8) >> 4)
RECURSIVE Interarrival(_, _)
Interarrival(ia, js) ==
    IF js = <<>> THEN ia
    ELSE Interarrival(ia + Head(js) - ((ia + 8) \div 16), Tail(js))

\* the jitters of the packets after the first (the `if i > 0` branch)
PairJitters(s) == IF s = <<>> THEN <<>> ELSE Tail(Jitters(s))

\* README.md:200-204  sqrDiff, times Received squared
SqrDiffScaled(s) ==
    SumSeq([i \in 1..Len(s) |-> (Len(s) * s[i] - SumSeq(s)) * (Len(s) * s[i] - SumSeq(s))])

SkipsNoHost(h) == FALSE

\* README.md:166-168  if host.Received == 0 { continue }
SkipsHost(h) == h.Received = 0

\* README.md:206  the divisor of MeanJitter
MeanJitterDivisor(h) == h.Received

\* README.md:162-165  the fields set for every hop
Counted(h, packetsSent) ==
    [h EXCEPT !.Sent = packetsSent,
              !.Received = Len(h.PacketMicrosecs),
              !.Dropped = packetsSent - Len(h.PacketMicrosecs),
              !.LostPercent = <<packetsSent - Len(h.PacketMicrosecs), packetsSent>>,
              !.Divisions = @ \cup {"LostPercent"}]

\* README.md:161-208  the body of processHosts for one hop
ProcessHost(h, packetsSent) ==
    LET c == Counted(h, packetsSent)
        s == h.PacketMicrosecs
    IN IF SkipsHost(c) THEN c
       ELSE [c EXCEPT !.InterarrivalJitter = Interarrival(@, PairJitters(s)),
                      !.Mean = <<SumSeq(s), c.Received>>,
                      !.WorstJitter = MaxFrom(0, PairJitters(s)),
                      !.Best = MinFrom(BestInit, s),
                      !.Worst = MaxFrom(0, s),
                      !.MeanJitter = <<SumSeq(Jitters(s)), MeanJitterDivisor(c)>>,
                      !.StandardDev = <<SqrDiffScaled(s), c.Received * SumSeq(s)>>,
                      !.Divisions = @ \cup {"Mean", "MeanJitter", "StandardDev"}]

\* README.md:160-209  StandardDev is held as the fraction under its root
processHosts(hs, packetsSent) == [i \in 1..Len(hs) |-> ProcessHost(hs[i], packetsSent)]

\* README.md:123-158  processOutput as a function of the raw output
processOutput(raw, packetsSent) ==
    LET r == ParseLoop(<<>>, Append(raw, " "))
    IN IF r.panic
       THEN [Hosts |-> r.Hosts, Error |-> "malformed", PacketsSent |-> packetsSent]
       ELSE [Hosts |-> processHosts(r.Hosts, packetsSent), Error |-> NoError,
             PacketsSent |-> packetsSent]

\* ------------------------------------------------------- one run, followed
ParseInit ==
    /\ CollectInit
    /\ ScrapeIdle
    /\ hosts = <<Host("t1", "a")>>
    /\ lines \in Outputs
    /\ terminated \in BOOLEAN
    /\ lines = <<>> => terminated
    /\ output = <<>>
    /\ run = NoRun
    /\ ppc = "exec"

\* README.md:104-106, 132-133  mtr exits well; processOutput starts on its output
Exec ==
    /\ ppc = "exec"
    /\ output' = Append(RawOf(lines, terminated), " ")
    /\ ppc' = "loop"
    /\ UNCHANGED <<cvars, svars, lines, terminated, run>>

\* README.md:104-105  exec.Command(...).Output() gives an error: no parsing
ExecFails ==
    /\ ppc = "exec"
    /\ run' = [run EXCEPT !.Error = "exec"]
    /\ ppc' = "done"
    /\ UNCHANGED <<cvars, svars, lines, terminated, output>>

PanicEscapes == "crash"

\* README.md:127-131  the deferred recover turns a panic into m.Error and
\* processOutput returns
PanicEnds == "done"

\* README.md:135-155  one iteration of the loop: the next record
ReadLine ==
    /\ ppc = "loop"
    /\ IndexByte(output, "\n") # 0 - 1
    /\ LET lineIdx == IndexByte(output, "\n")
           r == ProcessLine(run.Hosts, Slice(output, 0, lineIdx))
       IN /\ output' = Slice(output, lineIdx + 1, Len(output))
          /\ IF r.panic
             THEN /\ run' = [run EXCEPT !.Hosts = r.Hosts, !.Error = "malformed"]
                  /\ ppc' = PanicEnds
             ELSE /\ run' = [run EXCEPT !.Hosts = r.Hosts]
                  /\ ppc' = "loop"
    /\ UNCHANGED <<cvars, svars, lines, terminated>>

\* README.md:136-138  no newline is left: break
EndOfOutput ==
    /\ ppc = "loop"
    /\ IndexByte(output, "\n") = 0 - 1
    /\ ppc' = "hosts"
    /\ UNCHANGED <<cvars, svars, lines, terminated, output, run>>

\* README.md:157, 160-209  m.processHosts(), then Done is closed
ProcessHosts ==
    /\ ppc = "hosts"
    /\ run' = [run EXCEPT !.Hosts = processHosts(@, run.PacketsSent)]
    /\ ppc' = "done"
    /\ UNCHANGED <<cvars, svars, lines, terminated, output>>

TraceSendsAlways(err) == TRUE

\* main.go:240  if a.Error == nil
TraceSends(err) == err = NoError

\* main.go:238-247  trace after <-a.Done: sends the feedback or only returns
\* the error
TraceReturns ==
    /\ ppc = "done"
    /\ ppc' = IF TraceSends(run.Error) THEN "sent" ELSE "failed"
    /\ UNCHANGED <<cvars, svars, lines, terminated, output, run>>

ParseNext ==
    \/ Exec
    \/ ExecFails
    \/ ReadLine
    \/ EndOfOutput
    \/ ProcessHosts
    \/ TraceReturns

ParseSpec == ParseInit /\ [][ParseNext]_vars

\* ------------------------------------------- the statistics of one hop
SampleValues == {parseByteNum(<<"-">>), 0, 100, 120, 150}
SampleSeqs == UNION {[1..n -> SampleValues] : n \in 0..MaxSamples}

StatInit ==
    /\ CollectInit
    /\ ScrapeIdle
    /\ hosts = <<Host("t1", "a")>>
    /\ lines = <<>> /\ terminated = TRUE /\ output = <<>>
    /\ \E s \in SampleSeqs, n \in 1..MaxSent :
           run = [Hosts |-> <<[NewHost(0) EXCEPT !.PacketMicrosecs = s]>>,
                  Error |-> NoError, PacketsSent |-> n]
    /\ ppc = "hosts"

StatNext == ProcessHosts

StatSpec == StatInit /\ [][StatNext]_vars

\* ------------------------------------------- v0.1.0: the scrape-driven exporter
\* the host lists a successful run of a scrape can hold (config.ReportCycles
\* taken as ReportCycles)
ScrapeHostLists == Lists(MaxHopsShared, {ReportCycles})

\* part_001:174  Prometheus calls Collect; scrapes may arrive concurrently
ScrapeArrives(s) ==
    /\ spc[s] = "idle"
    /\ spc' = [spc EXCEPT ![s] = "lock"]
    /\ UNCHANGED <<cvars, pvars, mutex, swpc, smtr, swg, sclosed, scloser, stf, gauges, recorded>>

MutexIgnored == TRUE

\* sync.Mutex: Lock returns when nobody holds the mutex
MutexFree == mutex = 0

\* part_001:175  e.mutex.Lock()
Lock(s) ==
    /\ spc[s] = "lock"
    /\ MutexFree
    /\ mutex' = s
    /\ spc' = [spc EXCEPT ![s] = "setup"]
    /\ UNCHANGED <<cvars, pvars, swpc, smtr, swg, sclosed, scloser, stf, gauges, recorded>>

\* part_001:137-148  channel, WaitGroup, one goroutine per host, the closer
Setup(s) ==
    /\ spc[s] = "setup"
    /\ swg' = [swg EXCEPT ![s] = N]
    /\ swpc' = [swpc EXCEPT ![s] = [w \in Workers |-> IF w <= N THEN "probe" ELSE "none"]]
    /\ scloser' = [scloser EXCEPT ![s] = "wait"]
    /\ spc' = [spc EXCEPT ![s] = "range"]
    /\ UNCHANGED <<cvars, pvars, mutex, smtr, sclosed, stf, gauges, recorded>>

\* part_001:188-193  a.Error is set: trace logs it and returns
ScrapeProbeFail(s, w) ==
    /\ swpc[s][w] = "probe"
    /\ \E e \in Errors : smtr' = [smtr EXCEPT ![s][w] = [Error |-> e, Hosts |-> <<>>]]
    /\ swpc' = [swpc EXCEPT ![s][w] = "wgdone"]
    /\ UNCHANGED <<cvars, pvars, spc, mutex, swg, sclosed, scloser, stf, gauges, recorded>>

\* part_001:188-194  a.Error is nil and a.Hosts is set
ScrapeProbeOk(s, w) ==
    /\ swpc[s][w] = "probe"
    /\ \E hl \in ScrapeHostLists :
           smtr' = [smtr EXCEPT ![s][w] = [Error |-> NoError, Hosts |-> hl]]
    /\ swpc' = [swpc EXCEPT ![s][w] = "send"]
    /\ UNCHANGED <<cvars, pvars, spc, mutex, swg, sclosed, scloser, stf, gauges, recorded>>

\* part_001:195-199 and 150  the send meets the range loop's receive
ScrapeReceive(s, w) ==
    /\ spc[s] = "range"
    /\ swpc[s][w] = "send"
    /\ ~sclosed[s]
    /\ stf' = [stf EXCEPT ![s] = [Target |-> Name(w), Alias |-> Alias(w),
                                  Hosts |-> smtr[s][w].Hosts, Cycle |-> s, Worker |-> w]]
    /\ spc' = [spc EXCEPT ![s] = "body"]
    /\ swpc' = [swpc EXCEPT ![s][w] = "wgdone"]
    /\ UNCHANGED <<cvars, pvars, mutex, smtr, swg, sclosed, scloser, gauges, recorded>>

\* part_001:204, 206  trace returned: the deferred wg.Done runs
ScrapeWgDone(s, w) ==
    /\ swpc[s][w] = "wgdone"
    /\ swg' = [swg EXCEPT ![s] = @ - 1]
    /\ swpc' = [swpc EXCEPT ![s][w] = "done"]
    /\ UNCHANGED <<cvars, pvars, spc, mutex, smtr, sclosed, scloser, stf, gauges, recorded>>

\* part_001:145-148  the closer goroutine: wg.Wait(); close(results)
ScrapeClose(s) ==
    /\ scloser[s] = "wait"
    /\ swg[s] = 0
    /\ sclosed' = [sclosed EXCEPT ![s] = TRUE]
    /\ scloser' = [scloser EXCEPT ![s] = "done"]
    /\ UNCHANGED <<cvars, pvars, spc, mutex, swpc, smtr, swg, stf, gauges, recorded>>

\* GaugeVec.WithLabelValues(k).Set(v)
Set(vec, k, v) == IF k \in DOMAIN vec THEN [vec EXCEPT ![k] = v] ELSE vec @@ (k :> v)

\* part_001:151-160  the gauges of the hops of feedback, from hop i on (the
\* sent, received and dropped gauges; lost, mean, best, worst and standard are
\* set in the same statements from fields the host lists here do not carry)
RECURSIVE SetHops(_, _, _)
SetHops(vec, feedback, i) ==
    IF i > Len(feedback.Hosts) THEN vec
    ELSE LET h == feedback.Hosts[i]
         IN SetHops(Set(vec, <<feedback.Alias, feedback.Target, h.Hop, h.IP>>,
                        <<h.Sent, h.Received, h.Dropped>>),
                    feedback, i + 1)

\* part_001:150-161  one run of the range loop's body
ScrapeBody(s) ==
    /\ spc[s] = "body"
    /\ gauges' = SetHops(gauges, stf[s], 1)
    /\ recorded' = [recorded EXCEPT ![s][stf[s].Worker] = @ + 1]
    /\ stf' = [stf EXCEPT ![s] = NoTF]
    /\ spc' = [spc EXCEPT ![s] = "range"]
    /\ UNCHANGED <<cvars, pvars, mutex, swpc, smtr, swg, sclosed, scloser>>

\* part_001:150, 163-171, 176  the range loop ends on the closed channel, the
\* vectors are collected, collect returns and the deferred Unlock runs
ScrapeReturns(s) ==
    /\ spc[s] = "range"
    /\ sclosed[s]
    /\ spc' = [spc EXCEPT ![s] = "returned"]
    /\ mutex' = 0
    /\ UNCHANGED <<cvars, pvars, swpc, smtr, swg, sclosed, scloser, stf, gauges, recorded>>

ScrapeNext ==
    \/ \E s \in Scrapes : ScrapeArrives(s)
    \/ \E s \in Scrapes : Lock(s)
    \/ \E s \in Scrapes : Setup(s)
    \/ \E s \in Scrapes, w \in Workers : ScrapeProbeFail(s, w)
    \/ \E s \in Scrapes, w \in Workers : ScrapeProbeOk(s, w)
    \/ \E s \in Scrapes, w \in Workers : ScrapeReceive(s, w)
    \/ \E s \in Scrapes, w \in Workers : ScrapeWgDone(s, w)
    \/ \E s \in Scrapes : ScrapeClose(s)
    \/ \E s \in Scrapes : ScrapeBody(s)
    \/ \E s \in Scrapes : ScrapeReturns(s)

ScrapeSpec == Init /\ [][ScrapeNext]_vars

\* Go's scheduler runs every goroutine that can take a step, and every mtr
\* run ends
FairScrapeSpec == ScrapeSpec /\ WF_vars(ScrapeNext)

\* ------------------------------------------------------------------ claims
Aggregated == agg.cycle # 0         \* the last step of collect completed a loop body
HasPrevious == agg.prevRoute # NilRoute
OneEach(keys) == [k \in keys |-> 1]

\* C1: a trace whose route length differs from that of the previous
\* aggregated trace of its alias counts exactly one route change, labelled
\* with the smaller of the two lengths.
C1_LengthChangeCountsOne ==
    (Aggregated /\ HasPrevious /\ Len(agg.route) # Len(agg.prevRoute))
        => agg.routeEvents =
             OneEach({<<agg.alias, agg.target, min(Len(agg.route), Len(agg.prevRoute))>>})

\* C2: a trace whose route has the length m of the previous aggregated trace
\* of its alias counts one route change for every index in 0..m-2 at which
\* the two routes differ, and none for index m-1.
C2_SameLengthCountsDiffering ==
    (Aggregated /\ HasPrevious /\ Len(agg.route) = Len(agg.prevRoute))
        => agg.routeEvents =
             OneEach({<<agg.alias, agg.target, i>> :
                        i \in {j \in 0..(Len(agg.route) - 2) :
                                 agg.route[j + 1] # agg.prevRoute[j + 1]}})

\* C3: after a trace is aggregated, the first of its alias included, the
\* stored route of the alias is the trace's hop addresses and the stored
\* destination is its final hop address.
C3_RouteStateIsLastTrace ==
    Aggregated => /\ lastRoute[agg.alias] = agg.route
                  /\ lastDest[agg.alias] = agg.dest

\* C4: with a previous destination recorded for the alias, a trace counts
\* exactly one destination change, labelled (previous, current), when its
\* final hop address differs from the recorded one and none when it is equal;
\* a difference in the final hop position alone counts no route change.
OnlyFinalHopDiffers ==
    /\ HasPrevious
    /\ Len(agg.route) = Len(agg.prevRoute)
    /\ agg.route[Len(agg.route)] # agg.prevRoute[Len(agg.route)]
    /\ \A i \in 1..(Len(agg.route) - 1) : agg.route[i] = agg.prevRoute[i]

C4_DestinationChangeCountsOne ==
    (Aggregated /\ agg.prevDest # NilIP)
        => /\ agg.destEvents =
                IF agg.dest # agg.prevDest
                THEN OneEach({<<agg.alias, agg.target, agg.prevDest, agg.dest>>})
                ELSE <<>>
           /\ OnlyFinalHopDiffers => agg.routeEvents = <<>>

C4_Witness ==
    /\ Aggregated /\ agg.prevDest # NilIP /\ agg.dest # NilIP
    /\ OnlyFinalHopDiffers
    /\ Len(agg.route) > 1
    /\ Val(destinationChanges, <<agg.alias, agg.target, agg.prevDest, agg.dest>>) = 1

\* C5: the first aggregated trace of an alias counts no route change and no
\* destination change, and neither does a trace whose route and destination
\* are those of the previous aggregated trace of its alias.
C5_NoEventWithoutChange ==
    (Aggregated /\ (~HasPrevious \/ agg.route = agg.prevRoute))
        => agg.routeEvents = <<>> /\ agg.destEvents = <<>>

C5_Witness ==
    /\ Aggregated /\ HasPrevious
    /\ agg.route = agg.prevRoute
    /\ Len(agg.route) > 1
    /\ agg.dest # NilIP

\* C6: a pipeline whose probe failed never has a trace aggregated; its steps
\* leave lastRoute, lastDest, the per-hop vectors and the change counters as
\* they are; and it adds exactly one to its host's failed counter, by the
\* time it ends.
FailedLabel(w) == <<Alias(w), Name(w)>>

C6_FailureFrame ==
    [][\A c \in Cycles, w \in Workers :
         mtr'[c][w].Error # NoError =>
            /\ aggregated'[c][w] = 0
            /\ ~(tf' # NoTF /\ tf'.Cycle = c /\ tf'.Worker = w)
            /\ failIncs'[c][w] = (IF wpc'[c][w] = "done" THEN 1 ELSE 0)
            /\ wpc'[c][w] # wpc[c][w] =>
                  /\ routeState' = routeState
                  /\ metrics' = metrics
                  /\ changes' = changes
                  /\ \A k \in DOMAIN failed' \cup DOMAIN failed :
                        Val(failed', k) = Val(failed, k) +
                            (IF k = FailedLabel(w) /\ wpc'[c][w] = "done" THEN 1 ELSE 0)
      ]_vars

C6_Witness ==
    \E c \in Cycles, w \in Workers :
        /\ c > 1 /\ aggregated[c - 1][w] = 1
        /\ mtr[c][w].Error # NoError
        /\ wpc[c][w] = "done"
        /\ Val(failed, FailedLabel(w)) = 1
        /\ lastDest[Alias(w)] # NilIP
        /\ \E k \in DOMAIN sent : k[2] = Name(w) /\ sent[k] = 1

\* C7: every cycle starts one pipeline per configured host, and a pipeline
\* that has ended had its trace aggregated exactly once or its failed counter
\* incremented exactly once, and not both.
C7_EveryPipelineEndsOneWay ==
    \A c \in Cycles, w \in Workers :
        /\ c <= cycle => (wpc[c][w] # "none" <=> w <= N)
        /\ (wpc[c][w] = "done" /\ ~(mainpc = "body" /\ tf.Cycle = c /\ tf.Worker = w))
              => \/ aggregated[c][w] = 1 /\ failIncs[c][w] = 0
                 \/ aggregated[c][w] = 0 /\ failIncs[c][w] = 1

\* C8: lastRoute and lastDest are touched by the collect goroutine alone, in
\* the loop body, and the loop takes its next trace only when the body of
\* the one before has ended.
C8_SingleAggregationThread ==
    [][/\ rsAccess' \subseteq {"collect"}
       /\ routeState' # routeState => (mainpc = "body" /\ rsAccess' = {"collect"})
       /\ (tf' # tf /\ tf' # NoTF) => (tf = NoTF /\ mainpc = "range" /\ mainpc' = "body")
      ]_vars

C8_Witness ==
    /\ rsAccess = {"collect"}
    /\ agg.worker = 2
    /\ lastDest[agg.alias] = agg.dest /\ agg.dest # NilIP
    /\ wpc[agg.cycle][1] = "send"

\* C9: while a pipeline of an earlier cycle runs its probe or holds a trace
\* that is not aggregated yet, no later cycle has started; the trace in the
\* loop body and the trace just aggregated belong to the current cycle.
C9_CyclesDoNotOverlap ==
    /\ \A c \in Cycles, w \in Workers :
          /\ c < cycle => wpc[c][w] \notin {"probe", "send"}
          /\ c > cycle => wpc[c][w] = "none"
    /\ tf # NoTF => tf.Cycle = cycle
    /\ rsAccess = {"collect"} => agg.cycle = cycle

C9_Witness ==
    /\ cycle = 2
    /\ rsAccess = {"collect"}
    /\ agg.cycle = 2
    /\ aggregated[1][agg.worker] = 1
    /\ \E w \in Workers : wpc[1][w] = "inc"

\* C10: every cycle that has started ends, and the one after it starts.
C10_EveryCycleCompletes ==
    \A k \in 1..(MaxCycles - 1) : (cycle = k) ~> (cycle = k + 1)

\* ------------------------------------------- claims: parser and statistics
Finished == ppc \in {"done", "sent", "failed"}      \* Done is closed
\* whether processing the run's raw output panics
ParsePanics == ParseLoop(<<>>, Append(RawOf(lines, terminated), " ")).panic

\* C11: for any raw output (truncated, garbled, empty lines, records too
\* short to hold a hop index) parsing ends with a hop list or with the run's
\* error set, and never with a fault that escapes; a run whose parse failed
\* is reported as its target's failure and is never sent to the aggregation
\* point.
C11_ParseFailureIsTargetFailure ==
    /\ ppc # "crash"
    /\ Finished /\ run.Error # "exec" => (run.Error = "malformed" <=> ParsePanics)
    /\ ppc = "sent" => run.Error = NoError
    /\ ppc = "failed" => run.Error # NoError

C11_Witness ==
    /\ ppc = "failed"
    /\ run.Error = "malformed"
    /\ \E i \in DOMAIN lines : lines[i].kind = "?" /\ Len(lines[i].text) < 2

\* what a record says, read off its fields
IsDecimal(arg) == arg # <<>> /\ \A i \in DOMAIN arg : arg[i] \in {"0", "1", "2", "5"}
Value(arg) == CASE arg = <<"5">> -> 5 [] arg = <<"1", "2">> -> 12
HLinesOf(ls, n) == {i \in DOMAIN ls : ls[i].kind = "h" /\ ls[i].hop = n}
Last(S) == CHOOSE i \in S : \A j \in S : j <= i
IsSampleOf(r, n) == r.kind = "p" /\ r.hop = n
SamplesOf(ls, n) ==
    LET ps == SelectSeq(ls, LAMBDA r : IsSampleOf(r, n))
    IN [i \in DOMAIN ps |-> Value(ps[i].arg)]
HopCount(ls) ==
    IF \E i \in DOMAIN ls : ls[i].kind = "h"
    THEN 1 + Last({ls[i].hop : i \in {j \in DOMAIN ls : ls[j].kind = "h"}})
    ELSE 0

\* every record is an h, d or p record, every p and d record comes after an
\* h record of its hop, every p record carries a decimal number
WellFormed(ls) ==
    \A i \in DOMAIN ls :
        /\ ls[i].kind \in {"h", "d", "p"}
        /\ ls[i].kind = "p" => IsDecimal(ls[i].arg)
        /\ ls[i].kind \in {"d", "p"} => \E j \in HLinesOf(ls, ls[i].hop) : j < i

\* C12: for every well-formed raw output with every record newline-terminated,
\* parsing yields as many hops as the highest h index plus one, each hop's
\* address is that of the last h record of its index, and each hop's samples
\* are its p records' values in arrival order.
C12_WellFormedOutputParses ==
    Finished /\ run.Error # "exec" /\ terminated /\ WellFormed(lines) =>
        /\ run.Error = NoError
        /\ Len(run.Hosts) = HopCount(lines)
        /\ \A n \in 0..(HopCount(lines) - 1) :
              /\ run.Hosts[n + 1].PacketMicrosecs = SamplesOf(lines, n)
              /\ HLinesOf(lines, n) # {} =>
                    run.Hosts[n + 1].IP = ParseIP(lines[Last(HLinesOf(lines, n))].arg)

C12_Witness ==
    /\ ppc = "sent"
    /\ lines = <<Rec("h", 0, <<"A">>), Rec("p", 0, <<"1", "2">>),
                 Rec("h", 1, <<"B">>), Rec("p", 1, <<"5">>)>>
    /\ Len(run.Hosts) = 2
    /\ run.Hosts[1].PacketMicrosecs = <<12>>
    /\ run.Hosts[2].PacketMicrosecs = <<5>>

\* the p and d records whose hop no earlier h record reaches
Unannounced(ls) ==
    {i \in DOMAIN ls :
        /\ ls[i].kind \in {"p", "d"}
        /\ ~\E j \in 1..(i - 1) : ls[j].kind = "h" /\ ls[j].hop >= ls[i].hop}

\* C13: parsing fails with the malformed-output error whenever a p or d record
\* names a hop index for which no h record with that index or a higher one
\* came earlier, and then no hops of the run are published.
C13_UnannouncedHopFails ==
    Finished /\ run.Error # "exec" /\ Unannounced(lines) # {} =>
        run.Error = "malformed" /\ ppc # "sent"

\* C14: a final record that is not newline-terminated is still processed:
\* parsing an output whose last record lacks the newline yields the same hops
\* and samples (and the same error) as parsing it with the newline appended.
C14_FinalRecordNeedsNoNewline ==
    Finished /\ run.Error # "exec" /\ ~terminated =>
        LET whole == processOutput(RawOf(lines, TRUE), run.PacketsSent)
        IN run.Hosts = whole.Hosts /\ run.Error = whole.Error

\* a record whose first byte is none of h, d, p
UnknownPrefix(r) == r.text # <<>> /\ r.text[1] \notin {"h", "d", "p"}
IsKnown(r) == ~UnknownPrefix(r)

\* C15: a record whose prefix is not h, d or p is ignored whatever follows the
\* prefix (no fields, no space included): the parse gives the hop list and
\* the error it gives for the output without such records.
C15_UnknownPrefixIgnored ==
    Finished /\ run.Error # "exec" /\ terminated =>
        LET known == processOutput(RawOf(SelectSeq(lines, IsKnown), TRUE), run.PacketsSent)
        IN run.Hosts = known.Hosts /\ run.Error = known.Error

Parsed == ppc \in {"done", "sent"} /\ run.Error = NoError    \* a parsed run

\* C16: for every hop of a parsed run, received is the number of its latency
\* samples and dropped = sent - received is never negative, also when the
\* output carries more p records for a hop than packets were sent.
C16_DroppedNeverNegative ==
    Parsed =>
        \A i \in DOMAIN run.Hosts :
            /\ run.Hosts[i].Received = Len(run.Hosts[i].PacketMicrosecs)
            /\ run.Hosts[i].Dropped = run.Hosts[i].Sent - run.Hosts[i].Received
            /\ run.Hosts[i].Dropped >= 0

\* C17: at every point of parsing and in every parsed run the hop list has no
\* gaps: the hop stored at position i has index i, in whatever order and with
\* whatever indices the h records arrive.
C17_HopListHasNoGaps ==
    \A i \in DOMAIN run.Hosts : run.Hosts[i].Hop = i - 1

C17_Witness ==
    /\ ppc = "loop"
    /\ Len(lines) >= 2
    /\ lines[1] = Rec("h", 1, <<"B">>)
    /\ lines[2].kind = "h" /\ lines[2].hop = 0
    /\ Len(run.Hosts) = 2
    /\ run.Hosts[1].IP # NilIP

Range(s) == {s[i] : i \in DOMAIN s}
Least(S) == CHOOSE x \in S : \A y \in S : x <= y
Greatest(S) == CHOOSE x \in S : \A y \in S : y <= x
\* the hops whose statistics have been computed
Computed == IF ppc \in {"done", "sent"} /\ run.Error = NoError THEN DOMAIN run.Hosts ELSE {}
\* samples between the values best and worst start from
InRange(s) == \A i \in DOMAIN s : 0 <= s[i] /\ s[i] <= BestInit

\* C18: for a hop with at least one sample, best is the smallest sample, worst
\* the greatest, and mean times received is the sum of the samples, for every
\* sample sequence over the bounded integer range.
C18_BestWorstMean ==
    \A i \in Computed :
        LET h == run.Hosts[i]
        IN h.Received >= 1 /\ InRange(h.PacketMicrosecs) =>
              /\ h.Best = Least(Range(h.PacketMicrosecs))
              /\ h.Worst = Greatest(Range(h.PacketMicrosecs))
              /\ h.Mean[1] * h.Received = SumSeq(h.PacketMicrosecs) * h.Mean[2]
              /\ h.Mean[2] # 0

C18_Witness ==
    /\ ppc = "done"
    /\ Len(run.Hosts) = 1
    /\ run.Hosts[1].PacketMicrosecs = <<100, 150, 120>>
    /\ run.Hosts[1].Sent = 3 /\ run.Hosts[1].Received = 3 /\ run.Hosts[1].Dropped = 0
    /\ run.Hosts[1].Best = 100 /\ run.Hosts[1].Worst = 150
    /\ run.Hosts[1].Mean = <<370, 3>>

\* the sum of |s[i] - s[i-1]| over the pairs of consecutive samples
PairSum(s) == SumSeq([i \in 1..(Len(s) - 1) |-> Abs(s[i + 1] - s[i])])

\* C19: for a hop with at least two samples, meanJitter times (received - 1)
\* is the sum of the absolute differences of consecutive samples.
C19_MeanJitterIsPairAverage ==
    \A i \in Computed :
        LET h == run.Hosts[i]
        IN h.Received >= 2 =>
              h.MeanJitter[1] * (h.Received - 1) = PairSum(h.PacketMicrosecs) * h.MeanJitter[2]

\* every derived latency and jitter field still has its zero value
DerivedAtDefault(h) ==
    /\ h.Mean = Zero /\ h.Best = 0 /\ h.Worst = 0 /\ h.StandardDev = Zero
    /\ h.MeanJitter = Zero /\ h.WorstJitter = 0 /\ h.InterarrivalJitter = 0

\* C20 as stated: for a hop with received = 0 every derived latency and jitter
\* field keeps its zero default and no division is performed while the hop's
\* statistics are computed.
C20_NoDivisionWithoutSamples ==
    \A i \in Computed :
        run.Hosts[i].Received = 0 =>
            DerivedAtDefault(run.Hosts[i]) /\ run.Hosts[i].Divisions = {}

\* C20, amended: for a hop with received = 0 every derived latency and jitter
\* field keeps its zero default and the only division performed is the loss
\* fraction dropped / sent; nothing is divided by received or by the mean.
C20_OnlyLossDivisionWithoutSamples ==
    \A i \in Computed :
        run.Hosts[i].Received = 0 =>
            DerivedAtDefault(run.Hosts[i]) /\ run.Hosts[i].Divisions = {"LostPercent"}

C20_Witness ==
    /\ ppc = "done"
    /\ Len(run.Hosts) = 1
    /\ run.Hosts[1].Received = 0
    /\ run.Hosts[1].Sent = MaxSent /\ run.Hosts[1].Dropped = MaxSent
    /\ run.Hosts[1].LostPercent = <<MaxSent, MaxSent>>

\* ------------------------------------------------ claims: the cycle, again
\* loop bodies of cycle c that ended with a write of lastDest[al] (main.go:217
\* runs in every completed body)
RouteStateWrites(c, al) ==
    Cardinality({w \in DOMAIN hosts : Alias(w) = al /\ aggregated[c][w] > 0})

\* C21: in every cycle the RouteState of each alias is written at most once,
\* and only as the effect of a successful trace, for every configuration of
\* targets, two targets with the same alias included.
C21_RouteStateWrittenOncePerCycle ==
    /\ \A c \in Cycles, al \in Aliases : RouteStateWrites(c, al) <= 1
    /\ \A c \in Cycles, w \in Workers : aggregated[c][w] <= 1
    /\ \A c \in Cycles, w \in Workers : aggregated[c][w] > 0 => mtr[c][w].Error = NoError

\* ------------------------------------------------------ claims: v0.1.0
\* the scrape is between Lock and the return of Collect
InProgress(s) == spc[s] \in {"setup", "range", "body"}

ScrapeIsSynchronous ==
    /\ \A s \in Scrapes, w \in DOMAIN hosts :
          /\ spc[s] = "returned" =>
                /\ swpc[s][w] = "done"
                /\ recorded[s][w] = (IF smtr[s][w].Error = NoError THEN 1 ELSE 0)
          /\ swpc[s][w] \in {"probe", "send", "wgdone"} => InProgress(s)
    /\ Cardinality({s \in Scrapes : InProgress(s)}) <= 1

\* C22: in the v0.1.0 exporter Collect returns only when every configured
\* host's trace of the scrape has ended and every successful result has been
\* recorded, at most one scrape's collection is in progress at any time, and
\* a scrape that was requested returns, every probe coming to an end.
C22_ScrapeRunsSynchronously ==
    /\ []ScrapeIsSynchronous
    /\ \A s \in Scrapes : (spc[s] = "lock") ~> (spc[s] = "returned")

C22_Witness ==
    /\ N = 2
    /\ spc[1] = "lock"
    /\ mutex = 2 /\ spc[2] = "range" /\ sclosed[2]
    /\ recorded[2][1] = 1
    /\ smtr[2][2].Error # NoError

\* ------------------------------------------- claims: the cycle's goroutines
\* C23: once the next cycle has started, every host whose probe failed in a
\* cycle has had its failed counter incremented: no failure increment of
\* cycle k is still to come when cycle k+1 has started.
C23_FailuresCountedBeforeNextCycle ==
    \A c \in Cycles, w \in Workers :
        c < cycle /\ mtr[c][w].Error # NoError => failIncs[c][w] = 1 /\ wpc[c][w] = "done"

\* C24: every TargetFeedback that reaches the loop body holds at least one
\* hop, so taking the last hop as the destination never indexes an empty
\* list, whatever the probe's outcome, a run that ends well with no h record
\* in its output included.
C24_FeedbackHasAHop ==
    mainpc \in {"body", "panic"} => ~DestinationPanics(tf.Hosts)

\* C25: every increment the loop body applies to the sent, received, dropped
\* and lost counters is non-negative, for every trace the parser can deliver,
\* so no counter ever decreases.
C25_IncrementsNonNegative ==
    mainpc \in {"body", "panic"} =>
        \A i \in DOMAIN tf.Hosts :
            /\ ~AddPanics(tf.Hosts[i].Sent) /\ ~AddPanics(tf.Hosts[i].Received)
            /\ ~AddPanics(tf.Hosts[i].Dropped) /\ ~AddPanics(LostTimesSent(tf.Hosts[i]))

\* the range loop of cycle c has ended
RangeEnded(c) == c < cycle \/ (c = cycle /\ mainpc = "spawn")

\* C26: a cycle's results channel is closed only when every worker of the
\* cycle is past its send, and by the one closer of the cycle; no worker
\* sends on a closed channel or is left in its send when the range loop has
\* ended.
C26_CloseAfterAllSends ==
    \A c \in Cycles :
        /\ closed[c] <=> closer[c] = "done"
        /\ closed[c] => wg[c] = 0
        /\ \A w \in Workers :
              /\ closed[c] => wpc[c][w] \in {"none", "inc", "done"}
              /\ RangeEnded(c) => wpc[c][w] \in {"none", "inc", "done"}
              /\ wpc[c][w] \in {"probe", "send", "wgdone"} => wg[c] > 0

C26_Witness ==
    /\ N = 2
    /\ cycle = 2 /\ closed[1] /\ closed[2]
    /\ mainpc = "range"
    /\ aggregated[2][1] = 1
    /\ mtr[2][2].Error # NoError

====
